---- MODULE Spec2Model ----
(***************************************************************************)
(* bplIO (src/bplIO.hpp): raw keyboard input for Unix terminals.           *)
(*                                                                         *)
(* The class keeps two static fields (initialized, term_backup) and acts   *)
(* on three pieces of state owned by the operating system and the C        *)
(* library: the terminal attributes of file descriptor 0, the queue of     *)
(* bytes waiting to be read on file descriptor 0, and the buffering mode   *)
(* of the stdin stream.  Every public method is one action; _getch is two  *)
(* (the call, and the return of the blocking read).  The environment adds  *)
(* bytes to the queue (KeyPress).                                          *)
(*                                                                         *)
(* Spec is the facility used as intended: one thread, standard input a     *)
(* terminal that no other process changes.  FairSpec adds that a blocked   *)
(* read returns.  SpecExt adds another process changing the terminal,      *)
(* SpecNoTty makes standard input something else than a terminal, and      *)
(* SpecConc runs enableIO from two threads, statement by statement.        *)
(***************************************************************************)
EXTENDS Integers, Sequences, FiniteSets, TLC

(***************************************************************************)
(* Bounds of the model.                                                    *)
(***************************************************************************)
MaxPending == 2     \* most bytes the input queue holds
MaxRun == 3         \* the count of consecutive enableIO calls saturates here
MaxIflag == 1       \* c_iflag ranges over 0..MaxIflag

(***************************************************************************)
(* <termios.h> flag bits of c_lflag (Linux values).                        *)
(***************************************************************************)
ICANON == 2
ECHO == 8

\* The bytes a key press may deliver: NUL, 'a', and a byte >= 128.
Bytes == {0, 97, 255}

\* The values of c_lflag: ICANON and ECHO, each set or not.
LFlags == {c + e : c \in {0, ICANON}, e \in {0, ECHO}}

\* struct termios: c_lflag, and c_iflag standing for every other member.
Termios == [c_iflag : 0..MaxIflag, c_lflag : LFlags]

\* A termios object with static storage duration is zero-initialized.
ZeroTermios == [c_iflag |-> 0, c_lflag |-> 0]

VARIABLES
    term,          \* kernel: attributes of the terminal on fd 0
    pending,       \* kernel: bytes received on fd 0 and not yet read, oldest first
    stdin_buf,     \* libc: buffering mode of the stdin stream
    initialized,   \* bplIO::initialized
    term_backup,   \* bplIO::term_backup
    charSigned,    \* build: whether plain char is a signed type
    pc,            \* "idle", or "_getch" while the read of _getch is blocked
    ret,           \* value returned by the last completed call (0 for void)
    lastOp,        \* history: the last completed call
    newInput,      \* history: a byte arrived since the last completed call
    qBefore,       \* history: the queue just before the last _getch/_flush acted
    active,        \* history: enableIO was called and disableIO not since
    enRun,         \* history: length of the run of enableIO calls just made
    pre,           \* history: terminal attributes just before the first enableIO
    disRun,        \* history: length of the run of disableIO calls just made
    setArg,        \* history: the attributes last passed to tcsetattr
    ext,           \* history: "since" when another process changed the terminal
                   \* after the first enableIO and no call completed since,
                   \* "before" when a call did, "no" when none did
    ttyOk,         \* environment: fd 0 is a terminal (tcgetattr/tcsetattr succeed)
    tpc,           \* threads: where each thread is inside enableIO
    tterm,         \* threads: each thread's local variable term of enableIO
    raced          \* history: a thread entered the capture while another was in it

vars == <<term, pending, stdin_buf, initialized, term_backup, charSigned, pc,
          ret, lastOp, newInput, qBefore, active, enRun, pre, disRun, setArg,
          ext, ttyOk, tpc, tterm, raced>>

\* The threads that may be inside enableIO at once.
Threads == {1, 2}

\* The state of the threads.
conc == <<tpc, tterm, raced>>

\* A completed call ends the time "since" an external change.
Seen(e) == IF e = "since" THEN "before" ELSE e

Min(a, b) == IF a < b THEN a ELSE b

(***************************************************************************)
(* flags & ~mask on unsigned integers, bit by bit.                         *)
(***************************************************************************)
RECURSIVE AndNot(_, _)
AndNot(flags, mask) ==
    IF flags = 0 THEN 0
    ELSE (IF mask % 2 = 1 THEN 0 ELSE flags % 2)
         + 2 * AndNot(flags \div 2, mask \div 2)

\* flags & mask
RECURSIVE BitAnd(_, _)
BitAnd(flags, mask) ==
    IF flags = 0 \/ mask = 0 THEN 0
    ELSE (flags % 2) * (mask % 2) + 2 * BitAnd(flags \div 2, mask \div 2)

HasFlag(t, bit) == BitAnd(t.c_lflag, bit) # 0

\* tcgetattr(STDIN, &term): what the local term can hold afterwards.  On a
\* terminal, its attributes; on failure the call writes nothing and term
\* keeps its indeterminate value, since the result is not checked.
TcGetAttr == IF ttyOk THEN {term} ELSE Termios

\* tcsetattr(STDIN, TCSANOW, &t): the attributes of the terminal afterwards.
\* On failure they are unchanged, and the result is not checked.
TcSetAttr(t) == IF ttyOk THEN t ELSE term

(***************************************************************************)
(* The pieces of the methods that compute something.                       *)
(***************************************************************************)

\* enableIO, first call, with the capture made after the flag is cleared.
FirstEnable_saveAfterClear(t) ==
    LET raw == [t EXCEPT !.c_lflag = AndNot(@, ICANON)]
    IN  [backup |-> raw, applied |-> raw]

\* enableIO, first call, clearing the echo flag too.
FirstEnable_clearEcho(t) ==
    [backup  |-> t,
     applied |-> [t EXCEPT !.c_lflag = AndNot(@, ICANON + ECHO)]]

\* enableIO, first call: t is what tcgetattr read.  backup is the copy kept
\* in term_backup, applied is what tcsetattr writes to the terminal.
FirstEnable(t) ==
    [backup  |-> t,
     applied |-> [t EXCEPT !.c_lflag = AndNot(@, ICANON)]]

\* _kbhit reporting only whether something is pending.
FIONREAD_flag(q) == IF Len(q) > 0 THEN 1 ELSE 0

\* ioctl(STDIN, FIONREAD, &bytesWaiting): the number of bytes in the queue.
FIONREAD(q) == Len(q)

\* read taking the newest byte.
ReadOne_newest(q) == [byte |-> q[Len(q)], rest |-> SubSeq(q, 1, Len(q) - 1)]

\* read(STDIN, buf, 1) on a non-empty queue: takes the oldest byte.
ReadOne(q) == [byte |-> Head(q), rest |-> Tail(q)]

\* return buf[0]: a char converted to int.  A signed char holding a byte
\* >= 128 is negative; the conversion keeps the value.
CharToInt(b) == IF charSigned /\ b >= 128 THEN b - 256 ELSE b

\* ioctl(fd, TCFLSH, arg): 0 discards the input queue, 1 the output queue,
\* 2 both.  q is the input queue.
TCFLSH(q, arg) == IF arg \in {0, 2} THEN << >> ELSE q

\* _flush discarding the output queue.
Flush_output(q) == TCFLSH(q, 1)

\* _flush: ioctl(STDIN, TCFLSH, 0).
Flush(q) == TCFLSH(q, 0)

(***************************************************************************)
(* Initial state: the terminal has any attributes, stdin is buffered as    *)
(* the C library or the program left it, nothing was typed yet, and the    *)
(* statics have their initializers.                                        *)
(***************************************************************************)
InitState ==
    /\ term \in Termios
    /\ pending = << >>
    /\ stdin_buf \in {"line", "full"}
    /\ initialized = FALSE
    /\ term_backup = ZeroTermios
    /\ charSigned \in BOOLEAN
    /\ pc = "idle"
    /\ ret = 0
    /\ lastOp = "none"
    /\ newInput = FALSE
    /\ qBefore = << >>
    /\ active = FALSE
    /\ enRun = 0
    /\ pre = ZeroTermios
    /\ disRun = 0
    /\ setArg = ZeroTermios
    /\ ext = "no"
    /\ tpc = [t \in Threads |-> "idle"]
    /\ tterm = [t \in Threads |-> ZeroTermios]
    /\ raced = FALSE

\* Standard input is a terminal.
Init == InitState /\ ttyOk = TRUE

\* Standard input is not a terminal (redirected from a file or a pipe).
InitNoTty == InitState /\ ttyOk = FALSE

(***************************************************************************)
(* The methods.                                                            *)
(***************************************************************************)

\* enableIO capturing the attributes on every call.
enableIO_recapture ==
    /\ pc = "idle"
    /\ \E got \in TcGetAttr :
          /\ term_backup' = FirstEnable(got).backup
          /\ setArg' = FirstEnable(got).applied
          /\ term' = TcSetAttr(FirstEnable(got).applied)
    /\ initialized' = TRUE
    /\ pre' = IF initialized THEN pre ELSE term
    /\ stdin_buf' = "unbuffered"
    /\ active' = TRUE
    /\ enRun' = IF lastOp = "enableIO" THEN Min(enRun + 1, MaxRun) ELSE 1
    /\ lastOp' = "enableIO"
    /\ ret' = 0
    /\ newInput' = FALSE
    /\ qBefore' = << >>
    /\ disRun' = 0
    /\ ext' = Seen(ext)
    /\ UNCHANGED <<pending, charSigned, pc, ttyOk, conc>>

\* enableIO applying the attributes with TCSAFLUSH, which discards the
\* pending input.
enableIO_tcsaflush ==
    /\ pc = "idle"
    /\ IF ~initialized
       THEN /\ \E got \in TcGetAttr :
                  /\ term_backup' = FirstEnable(got).backup
                  /\ setArg' = FirstEnable(got).applied
                  /\ term' = TcSetAttr(FirstEnable(got).applied)
            /\ initialized' = TRUE
            /\ pre' = term
            /\ pending' = << >>
       ELSE UNCHANGED <<term_backup, term, setArg, initialized, pre, pending>>
    /\ stdin_buf' = "unbuffered"
    /\ active' = TRUE
    /\ enRun' = IF lastOp = "enableIO" THEN Min(enRun + 1, MaxRun) ELSE 1
    /\ lastOp' = "enableIO"
    /\ ret' = 0
    /\ newInput' = FALSE
    /\ qBefore' = << >>
    /\ disRun' = 0
    /\ ext' = Seen(ext)
    /\ UNCHANGED <<charSigned, pc, ttyOk, conc>>

\* enableIO returning at once when tcgetattr fails.
enableIO_checked ==
    /\ pc = "idle"
    /\ IF ~initialized /\ ttyOk
       THEN /\ \E got \in TcGetAttr :
                  /\ term_backup' = FirstEnable(got).backup
                  /\ setArg' = FirstEnable(got).applied
                  /\ term' = TcSetAttr(FirstEnable(got).applied)
            /\ initialized' = TRUE
            /\ pre' = term
       ELSE UNCHANGED <<term_backup, term, setArg, initialized, pre>>
    /\ stdin_buf' = IF initialized \/ ttyOk THEN "unbuffered" ELSE stdin_buf
    /\ active' = TRUE
    /\ enRun' = IF lastOp = "enableIO" THEN Min(enRun + 1, MaxRun) ELSE 1
    /\ lastOp' = "enableIO"
    /\ ret' = 0
    /\ newInput' = FALSE
    /\ qBefore' = << >>
    /\ disRun' = 0
    /\ ext' = Seen(ext)
    /\ UNCHANGED <<pending, charSigned, pc, ttyOk, conc>>

\* enableIO calling setbuf only on its first call.
enableIO_bufOnce ==
    /\ pc = "idle"
    /\ IF ~initialized
       THEN /\ \E got \in TcGetAttr :
                  /\ term_backup' = FirstEnable(got).backup
                  /\ setArg' = FirstEnable(got).applied
                  /\ term' = TcSetAttr(FirstEnable(got).applied)
            /\ initialized' = TRUE
            /\ pre' = term
            /\ stdin_buf' = "unbuffered"
       ELSE UNCHANGED <<term_backup, term, setArg, initialized, pre, stdin_buf>>
    /\ active' = TRUE
    /\ enRun' = IF lastOp = "enableIO" THEN Min(enRun + 1, MaxRun) ELSE 1
    /\ lastOp' = "enableIO"
    /\ ret' = 0
    /\ newInput' = FALSE
    /\ qBefore' = << >>
    /\ disRun' = 0
    /\ ext' = Seen(ext)
    /\ UNCHANGED <<pending, charSigned, pc, ttyOk, conc>>

enableIO ==
    /\ pc = "idle"
    /\ IF ~initialized
       THEN /\ \E got \in TcGetAttr :
                  /\ term_backup' = FirstEnable(got).backup
                  /\ setArg' = FirstEnable(got).applied
                  /\ term' = TcSetAttr(FirstEnable(got).applied)
            /\ initialized' = TRUE
            /\ pre' = term
       ELSE UNCHANGED <<term_backup, term, setArg, initialized, pre>>
    /\ stdin_buf' = "unbuffered"
    /\ active' = TRUE
    /\ enRun' = IF lastOp = "enableIO" THEN Min(enRun + 1, MaxRun) ELSE 1
    /\ lastOp' = "enableIO"
    /\ ret' = 0
    /\ newInput' = FALSE
    /\ qBefore' = << >>
    /\ disRun' = 0
    /\ ext' = Seen(ext)
    /\ UNCHANGED <<pending, charSigned, pc, ttyOk, conc>>

\* disableIO doing nothing to the terminal before the first enableIO.
disableIO_checked ==
    /\ pc = "idle"
    /\ stdin_buf' = "line"
    /\ active' = FALSE
    /\ term' = IF initialized THEN TcSetAttr(term_backup) ELSE term
    /\ setArg' = IF initialized THEN term_backup ELSE setArg
    /\ enRun' = IF lastOp = "enableIO" THEN enRun ELSE 0
    /\ lastOp' = "disableIO"
    /\ ret' = 0
    /\ newInput' = FALSE
    /\ qBefore' = << >>
    /\ disRun' = IF lastOp = "disableIO" THEN Min(disRun + 1, MaxRun) ELSE 1
    /\ ext' = Seen(ext)
    /\ UNCHANGED <<pending, initialized, term_backup, charSigned, pc, pre,
                   ttyOk, conc>>

\* disableIO clearing the flag.
disableIO_reset ==
    /\ pc = "idle"
    /\ stdin_buf' = "line"
    /\ active' = FALSE
    /\ term' = TcSetAttr(term_backup)
    /\ setArg' = term_backup
    /\ initialized' = FALSE
    /\ enRun' = IF lastOp = "enableIO" THEN enRun ELSE 0
    /\ lastOp' = "disableIO"
    /\ ret' = 0
    /\ newInput' = FALSE
    /\ qBefore' = << >>
    /\ disRun' = IF lastOp = "disableIO" THEN Min(disRun + 1, MaxRun) ELSE 1
    /\ ext' = Seen(ext)
    /\ UNCHANGED <<pending, term_backup, charSigned, pc, pre, ttyOk, conc>>

\* disableIO keeping the attributes it replaces in term_backup.
disableIO_swap ==
    /\ pc = "idle"
    /\ stdin_buf' = "line"
    /\ active' = FALSE
    /\ term' = TcSetAttr(term_backup)
    /\ setArg' = term_backup
    /\ term_backup' = term
    /\ enRun' = IF lastOp = "enableIO" THEN enRun ELSE 0
    /\ lastOp' = "disableIO"
    /\ ret' = 0
    /\ newInput' = FALSE
    /\ qBefore' = << >>
    /\ disRun' = IF lastOp = "disableIO" THEN Min(disRun + 1, MaxRun) ELSE 1
    /\ ext' = Seen(ext)
    /\ UNCHANGED <<pending, initialized, charSigned, pc, pre, ttyOk, conc>>

disableIO ==
    /\ pc = "idle"
    /\ stdin_buf' = "line"
    /\ active' = FALSE
    /\ term' = TcSetAttr(term_backup)
    /\ setArg' = term_backup
    /\ enRun' = IF lastOp = "enableIO" THEN enRun ELSE 0
    /\ lastOp' = "disableIO"
    /\ ret' = 0
    /\ newInput' = FALSE
    /\ qBefore' = << >>
    /\ disRun' = IF lastOp = "disableIO" THEN Min(disRun + 1, MaxRun) ELSE 1
    /\ ext' = Seen(ext)
    /\ UNCHANGED <<pending, initialized, term_backup, charSigned, pc, pre,
                   ttyOk, conc>>

_kbhit ==
    /\ pc = "idle"
    /\ ret' = FIONREAD(pending)
    /\ lastOp' = "_kbhit"
    /\ newInput' = FALSE
    /\ qBefore' = << >>
    /\ enRun' = 0
    /\ disRun' = 0
    /\ ext' = Seen(ext)
    /\ UNCHANGED <<term, pending, stdin_buf, initialized, term_backup,
                   charSigned, pc, active, pre, setArg, ttyOk, conc>>

\* _getch is called: the read starts.
_getch_call ==
    /\ pc = "idle"
    /\ pc' = "_getch"
    /\ UNCHANGED <<term, pending, stdin_buf, initialized, term_backup,
                   charSigned, ret, lastOp, newInput, qBefore, active, enRun, pre,
                   disRun, setArg, ext, ttyOk, conc>>

\* The read of _getch returning although nothing is pending.
_getch_return_nowait ==
    /\ pc = "_getch"
    /\ ret' = IF pending = << >> THEN 0 ELSE CharToInt(ReadOne(pending).byte)
    /\ pending' = IF pending = << >> THEN pending ELSE ReadOne(pending).rest
    /\ pc' = "idle"
    /\ lastOp' = "_getch"
    /\ newInput' = FALSE
    /\ qBefore' = pending
    /\ enRun' = 0
    /\ disRun' = 0
    /\ ext' = Seen(ext)
    /\ UNCHANGED <<term, stdin_buf, initialized, term_backup, charSigned,
                   active, pre, setArg, ttyOk, conc>>

\* The read of _getch returns: it can once a byte is pending.
_getch_return ==
    /\ pc = "_getch"
    /\ pending # << >>
    /\ ret' = CharToInt(ReadOne(pending).byte)
    /\ pending' = ReadOne(pending).rest
    /\ pc' = "idle"
    /\ lastOp' = "_getch"
    /\ newInput' = FALSE
    /\ qBefore' = pending
    /\ enRun' = 0
    /\ disRun' = 0
    /\ ext' = Seen(ext)
    /\ UNCHANGED <<term, stdin_buf, initialized, term_backup, charSigned,
                   active, pre, setArg, ttyOk, conc>>

_flush ==
    /\ pc = "idle"
    /\ pending' = Flush(pending)
    /\ lastOp' = "_flush"
    /\ ret' = 0
    /\ newInput' = FALSE
    /\ qBefore' = pending
    /\ enRun' = 0
    /\ disRun' = 0
    /\ ext' = Seen(ext)
    /\ UNCHANGED <<term, stdin_buf, initialized, term_backup, charSigned, pc,
                   active, pre, setArg, ttyOk, conc>>

\* The environment: a key is pressed and its byte reaches the input queue.
KeyPress ==
    /\ Len(pending) < MaxPending
    /\ \E b \in Bytes : pending' = Append(pending, b)
    /\ newInput' = TRUE
    /\ UNCHANGED <<term, stdin_buf, initialized, term_backup, charSigned, pc,
                   ret, lastOp, qBefore, active, enRun, pre, disRun, setArg, ext,
                   ttyOk, conc>>

Next ==
    \/ enableIO
    \/ disableIO
    \/ _kbhit
    \/ _getch_call
    \/ _getch_return
    \/ _flush
    \/ KeyPress

Spec == Init /\ [][Next]_vars

\* A blocked read returns once the kernel has a byte for it.
FairSpec == Spec /\ WF_vars(_getch_return)

\* The calls that do not wait for input.
NextNoInput ==
    \/ enableIO
    \/ disableIO
    \/ _kbhit
    \/ _flush

\* The facility when standard input is not a terminal, with no input
\* arriving.
SpecNoTty == InitNoTty /\ [][NextNoInput]_vars

(***************************************************************************)
(* enableIO called by several threads.  Nothing synchronizes the statics,  *)
(* so the statements of one call interleave with those of another: each    *)
(* statement is a step.  The history variables are written when a call     *)
(* completes.                                                              *)
(***************************************************************************)
AllIdle == \A t \in Threads : tpc[t] = "idle"

\* Thread t is between the test of the flag and the assignment to it.
InCapture(t) == tpc[t] \in {"get", "save", "set", "flag"}

\* if ( !initialized )
e_check(t) ==
    /\ pc = "idle"
    /\ tpc[t] = "idle"
    /\ IF ~initialized
       THEN /\ tpc' = [tpc EXCEPT ![t] = "get"]
            /\ raced' = (raced \/ \E u \in Threads \ {t} : InCapture(u))
            /\ pre' = IF AllIdle THEN term ELSE pre
       ELSE /\ tpc' = [tpc EXCEPT ![t] = "buf"]
            /\ UNCHANGED <<raced, pre>>
    /\ UNCHANGED <<term, pending, stdin_buf, initialized, term_backup, charSigned,
                   pc, ret, lastOp, newInput, qBefore, active, enRun, disRun,
                   setArg, ext, ttyOk, tterm>>

\* termios term; tcgetattr( STDIN, &term );
e_get(t) ==
    /\ tpc[t] = "get"
    /\ \E got \in TcGetAttr : tterm' = [tterm EXCEPT ![t] = got]
    /\ tpc' = [tpc EXCEPT ![t] = "save"]
    /\ UNCHANGED <<term, pending, stdin_buf, initialized, term_backup, charSigned,
                   pc, ret, lastOp, newInput, qBefore, active, enRun, pre, disRun,
                   setArg, ext, ttyOk, raced>>

\* term_backup = term;
e_save(t) ==
    /\ tpc[t] = "save"
    /\ term_backup' = FirstEnable(tterm[t]).backup
    /\ tpc' = [tpc EXCEPT ![t] = "set"]
    /\ UNCHANGED <<term, pending, stdin_buf, initialized, charSigned,
                   pc, ret, lastOp, newInput, qBefore, active, enRun, pre, disRun,
                   setArg, ext, ttyOk, tterm, raced>>

\* term.c_lflag &= ~ICANON; tcsetattr( STDIN, TCSANOW, &term );
e_set(t) ==
    /\ tpc[t] = "set"
    /\ setArg' = FirstEnable(tterm[t]).applied
    /\ term' = TcSetAttr(FirstEnable(tterm[t]).applied)
    /\ tpc' = [tpc EXCEPT ![t] = "flag"]
    /\ UNCHANGED <<pending, stdin_buf, initialized, term_backup, charSigned,
                   pc, ret, lastOp, newInput, qBefore, active, enRun, pre, disRun,
                   ext, ttyOk, tterm, raced>>

\* initialized = true;
e_flag(t) ==
    /\ tpc[t] = "flag"
    /\ initialized' = TRUE
    /\ tpc' = [tpc EXCEPT ![t] = "buf"]
    /\ UNCHANGED <<term, pending, stdin_buf, term_backup, charSigned,
                   pc, ret, lastOp, newInput, qBefore, active, enRun, pre, disRun,
                   setArg, ext, ttyOk, tterm, raced>>

\* setbuf( stdin, nullptr ); and the call returns.
e_buf(t) ==
    /\ tpc[t] = "buf"
    /\ stdin_buf' = "unbuffered"
    /\ tpc' = [tpc EXCEPT ![t] = "idle"]
    /\ tterm' = [tterm EXCEPT ![t] = ZeroTermios]
    /\ active' = TRUE
    /\ enRun' = IF lastOp = "enableIO" THEN Min(enRun + 1, MaxRun) ELSE 1
    /\ lastOp' = "enableIO"
    /\ ret' = 0
    /\ newInput' = FALSE
    /\ qBefore' = << >>
    /\ disRun' = 0
    /\ ext' = Seen(ext)
    /\ UNCHANGED <<term, pending, initialized, term_backup, charSigned, pc, pre,
                   setArg, ttyOk, raced>>

\* disableIO called once no thread is inside enableIO.
disableIO_later == AllIdle /\ disableIO

NextConc ==
    \/ \E t \in Threads :
          \/ e_check(t)
          \/ e_get(t)
          \/ e_save(t)
          \/ e_set(t)
          \/ e_flag(t)
          \/ e_buf(t)
    \/ disableIO_later

\* enableIO from two threads, and disableIO after them.
SpecConc == Init /\ [][NextConc]_vars

\* The environment: another process attached to the same terminal changes
\* its attributes.
ExternalChange ==
    /\ \E t \in Termios \ {term} : term' = t
    /\ ext' = IF initialized THEN "since" ELSE ext
    /\ UNCHANGED <<pending, stdin_buf, initialized, term_backup, charSigned, pc,
                   ret, lastOp, newInput, qBefore, active, enRun, pre, disRun,
                   setArg, ttyOk, conc>>

\* The calls that do not wait for input, and the other processes.
NextExt ==
    \/ enableIO
    \/ disableIO
    \/ _kbhit
    \/ _flush
    \/ ExternalChange

\* The facility on a terminal that other processes change too, with no
\* input arriving.
SpecExt == Init /\ [][NextExt]_vars

TypeOK ==
    /\ term \in Termios
    /\ term_backup \in Termios
    /\ pending \in Seq(Bytes) /\ Len(pending) <= MaxPending
    /\ stdin_buf \in {"line", "full", "unbuffered"}
    /\ initialized \in BOOLEAN
    /\ pc \in {"idle", "_getch"}
    /\ ret \in -128..255
    /\ enRun \in 0..MaxRun
    /\ disRun \in 0..MaxRun
    /\ setArg \in Termios
    /\ ext \in {"no", "since", "before"}
    /\ ttyOk \in BOOLEAN
    /\ pre \in Termios
    /\ qBefore \in Seq(Bytes) /\ Len(qBefore) <= MaxPending
    /\ active \in BOOLEAN

(***************************************************************************)
(* Properties.                                                             *)
(***************************************************************************)

EchoCanon(t) == <<HasFlag(t, ECHO), HasFlag(t, ICANON)>>

\* C1: once enableIO has been called, right after every disableIO the
\* echo and canonical flags of the terminal are those it had just before
\* the first enableIO.
DisableRestoresEchoCanon ==
    (lastOp = "disableIO" /\ initialized) => EchoCanon(term) = EchoCanon(pre)

\* C1, its case: enableIO cleared the canonical flag of an echoing canonical
\* terminal, and disableIO has put both flags back.
DisableRestoresEchoCanon_witness ==
    /\ lastOp = "disableIO"
    /\ initialized
    /\ EchoCanon(pre) = <<TRUE, TRUE>>
    /\ EchoCanon(term) = <<TRUE, TRUE>>

\* C2: right after every enableIO, the first or a later one, the canonical
\* flag of the terminal is cleared.
EnableAlwaysLeavesRaw ==
    lastOp = "enableIO" => ~HasFlag(term, ICANON)

\* C3: a disableIO made right after n >= 1 consecutive enableIO calls leaves
\* every terminal attribute as it was before the first enableIO.
EnableRunThenDisableRestoresAll ==
    (lastOp = "disableIO" /\ enRun >= 1) => term = pre

\* C3, its case: two or more enableIO calls in a row, then disableIO, on a
\* terminal that had the canonical flag and another attribute set.
EnableRunThenDisableRestoresAll_witness ==
    /\ lastOp = "disableIO"
    /\ enRun >= 2
    /\ HasFlag(pre, ICANON)
    /\ pre.c_iflag # 0
    /\ term = pre

\* C4: _getch returns exactly the byte it took from the head of the input,
\* whatever its value.
GetchReturnsTheByte ==
    lastOp = "_getch" => ret = Head(qBefore)

\* C5: _kbhit returns the number of pending bytes: with no input since the
\* call, its result is the length of the queue (0 when nothing was typed,
\* at least 1 when a byte waits).
KbhitCountsPending ==
    (lastOp = "_kbhit" /\ ~newInput) =>
        /\ ret = Len(pending)
        /\ (pending = << >> <=> ret = 0)

\* C5, its case: _kbhit was called in raw mode with two or more bytes waiting.
KbhitCountsPending_witness ==
    /\ lastOp = "_kbhit"
    /\ ~newInput
    /\ active
    /\ Len(pending) >= 2
    /\ ret = Len(pending)

\* C6: _getch takes exactly one byte, the oldest: with no input since it
\* returned, the queue is the earlier queue without its head, the byte
\* returned (mod 256) is that head, and _kbhit would report one byte less.
GetchConsumesOldest ==
    (lastOp = "_getch" /\ ~newInput) =>
        /\ qBefore # << >>
        /\ pending = Tail(qBefore)
        /\ ret % 256 = Head(qBefore)
        /\ FIONREAD(pending) = Len(qBefore) - 1

\* C6, its case: two different bytes were pending and _getch took the first.
GetchConsumesOldest_witness ==
    /\ lastOp = "_getch"
    /\ ~newInput
    /\ Len(qBefore) >= 2
    /\ qBefore[1] # qBefore[2]
    /\ pending = Tail(qBefore)

\* C7: after _flush, until new input arrives, nothing is pending: _kbhit
\* would report 0 and a _getch that was called cannot return.
FlushDiscardsPending ==
    (lastOp = "_flush" /\ ~newInput) =>
        /\ pending = << >>
        /\ FIONREAD(pending) = 0
        /\ (pc = "_getch" => ~ENABLED _getch_return)

\* C7, its case: bytes were pending, _flush ran, and a _getch is waiting.
FlushDiscardsPending_witness ==
    /\ lastOp = "_flush"
    /\ ~newInput
    /\ qBefore # << >>
    /\ pending = << >>
    /\ pc = "_getch"

\* C8: while raw mode is active (enableIO called, disableIO not since) the
\* echo flag of the terminal is off.
NoEchoWhileActive ==
    active => ~HasFlag(term, ECHO)

\* C9: disableIO called when enableIO never was writes the zero-initialized
\* term_backup to the terminal, whatever the terminal held (the method is
\* void and has no guard: it reports nothing and is never refused).
DisableBeforeEnableWritesDefault ==
    (lastOp = "disableIO" /\ ~initialized) =>
        /\ term = ZeroTermios
        /\ term_backup = ZeroTermios

\* C9, its case: disableIO has run and enableIO never has.
DisableBeforeEnableWritesDefault_witness ==
    /\ lastOp = "disableIO"
    /\ ~initialized
    /\ ~active
    /\ term = ZeroTermios

SnapshotCapturedOnce ==
    /\ [](initialized => term_backup = pre)
    /\ [][initialized => term_backup' = term_backup]_vars
    /\ []((lastOp = "disableIO" /\ initialized /\ ext # "since") => term = pre)

\* C11, its case: after the first enableIO another process changed the
\* terminal; a later enableIO then disableIO left the original attributes.
SnapshotCapturedOnce_witness ==
    /\ lastOp = "disableIO"
    /\ enRun >= 1
    /\ ext = "before"
    /\ HasFlag(pre, ICANON)
    /\ term_backup = pre
    /\ term = pre

\* C12: the flag is false until the first enableIO, true once enableIO has
\* been called, and no step makes it false again.
FlagMonotonic ==
    /\ [](lastOp = "none" => ~initialized)
    /\ [](lastOp = "enableIO" => initialized)
    /\ [][initialized => initialized']_vars

\* C12, its case: enableIO, then disableIO, and the flag is still true.
FlagMonotonic_witness ==
    /\ lastOp = "disableIO"
    /\ ~active
    /\ disRun = 1
    /\ initialized

\* C13: stdin is unbuffered from any enableIO until the next disableIO, and
\* line-buffered right after any disableIO, whatever the flag.
BufferingFollowsLastCall ==
    /\ active => stdin_buf = "unbuffered"
    /\ lastOp = "disableIO" => stdin_buf = "line"

\* C13, its case: an enableIO that was not the first (the terminal is as
\* disableIO restored it) has made stdin unbuffered again.
BufferingFollowsLastCall_witness ==
    /\ lastOp = "enableIO"
    /\ enRun = 1
    /\ HasFlag(pre, ICANON)
    /\ term = pre
    /\ stdin_buf = "unbuffered"

\* C14: a disableIO called right after a disableIO changes neither the
\* terminal attributes, the stdin buffering, the flag nor the snapshot.
DisableIdempotent ==
    [][(lastOp = "disableIO" /\ disableIO) =>
         UNCHANGED <<term, stdin_buf, initialized, term_backup>>]_vars

\* C14, its case: two or more disableIO calls in a row after an enableIO of
\* a canonical terminal.
DisableIdempotent_witness ==
    /\ lastOp = "disableIO"
    /\ disRun >= 2
    /\ initialized
    /\ HasFlag(pre, ICANON)
    /\ term = pre

\* C15: when standard input is not a terminal, so that tcgetattr and
\* tcsetattr fail, enableIO still sets the flag and stores a snapshot, no
\* later step stores another, and disableIO hands that snapshot to tcsetattr.
FailureNotSurfaced ==
    /\ [](lastOp = "enableIO" => (~ttyOk /\ initialized))
    /\ [][initialized => term_backup' = term_backup]_vars
    /\ []((lastOp = "disableIO" /\ initialized) => setArg = term_backup)
    /\ []((lastOp = "disableIO" /\ ~initialized) => setArg = ZeroTermios)

\* C15, its case: standard input is not a terminal, the first enableIO
\* stored what its local term happened to hold, a second enableIO followed,
\* and disableIO has passed that snapshot to tcsetattr.
FailureNotSurfaced_witness ==
    /\ ~ttyOk
    /\ lastOp = "disableIO"
    /\ enRun >= 2
    /\ initialized
    /\ term_backup # ZeroTermios
    /\ term_backup # pre
    /\ setArg = term_backup

\* The attributes t with the canonical flag off and nothing else changed.
CanonCleared(t) ==
    [t EXCEPT !.c_lflag = IF HasFlag(t, ICANON) THEN @ - ICANON ELSE @]

\* C16: with two threads in enableIO, once both are out the snapshot is the
\* pre-enable attributes or, only when both were past the flag test together,
\* those attributes with the canonical flag already cleared; disableIO then
\* writes the snapshot, whichever it is.
ConcurrentCaptureRace ==
    /\ (AllIdle /\ initialized) =>
          \/ term_backup = pre
          \/ raced /\ term_backup = CanonCleared(pre)
    /\ (AllIdle /\ initialized /\ lastOp = "disableIO") => term = term_backup

\* C16, its case: both threads passed the flag test, the snapshot is the
\* raw configuration of a canonical terminal, and disableIO has left the
\* terminal raw instead of restoring it.
ConcurrentCaptureRace_witness ==
    /\ AllIdle
    /\ raced
    /\ lastOp = "disableIO"
    /\ HasFlag(pre, ICANON)
    /\ ~HasFlag(term_backup, ICANON)
    /\ term = term_backup
    /\ term # pre

\* C17: the first enableIO writes to the terminal the attributes it found
\* with the canonical flag off and nothing else changed (echo included), and
\* keeps the attributes it found, unmodified, as the snapshot.
FirstEnableClearsOnlyCanon ==
    [][(enableIO /\ ~initialized) =>
         /\ term' = CanonCleared(term)
         /\ term'.c_iflag = term.c_iflag
         /\ HasFlag(term', ECHO) = HasFlag(term, ECHO)
         /\ term_backup' = term]_vars

\* C17, its case: the first enableIO ran on an echoing canonical terminal
\* with another attribute set; only the canonical flag went off.
FirstEnableClearsOnlyCanon_witness ==
    /\ lastOp = "enableIO"
    /\ HasFlag(pre, ICANON) /\ HasFlag(pre, ECHO) /\ pre.c_iflag # 0
    /\ term_backup = pre
    /\ term # pre
    /\ term = CanonCleared(pre)
    /\ HasFlag(term, ECHO)

\* C18: _kbhit, _getch and _flush leave the terminal attributes, the stdin
\* buffering, the flag and the snapshot alone; _kbhit leaves the pending
\* input alone, so a second _kbhit with no new input returns the same count;
\* enableIO and disableIO leave the pending input alone.
InputAndModeFrames ==
    [][/\ (_kbhit \/ _getch_call \/ _getch_return \/ _flush) =>
             UNCHANGED <<term, stdin_buf, initialized, term_backup>>
       /\ _kbhit => pending' = pending
       /\ (lastOp = "_kbhit" /\ ~newInput /\ _kbhit) => ret' = ret
       /\ (enableIO \/ disableIO) => pending' = pending]_vars

\* C18, its case: two different bytes were pending when the first enableIO
\* ran, and they are still pending, in order.
InputAndModeFrames_witness ==
    /\ lastOp = "enableIO"
    /\ ~newInput
    /\ term # pre
    /\ Len(pending) = 2
    /\ pending[1] # pending[2]

====
